---- MODULE Spec2Model ----
(***************************************************************************)
(* A model of maptoposter: the theme resolver, the road classifier, the   *)
(* poster pipeline (create_poster / create_poster_figure), the PDF export  *)
(* (export_pdf, _add_crop_marks) and the two shells that drive them        *)
(* (cli.main, webapp.main).                                                *)
(*                                                                         *)
(* Conventions.                                                            *)
(*  - A Python str the code looks inside (lower, upper, replace, slicing,  *)
(*    lstrip, int(..., 16)) is a sequence of one-character strings.  A str *)
(*    the code only copies (theme name, paper size, timestamp) is one      *)
(*    token of such a sequence.                                            *)
(*  - A Python float that the code obtains by division is an exact         *)
(*    fraction <<n, d>> in lowest terms with d > 0 (rounding of IEEE       *)
(*    doubles is not modelled).  Millimetres are integers, as in           *)
(*    PAPER_SIZES and BLEED_MM.  Stroke widths are tenths (1.2 is 12).     *)
(*    Latitude and longitude are ten-thousandths of a degree.              *)
(***************************************************************************)
EXTENDS Integers, Sequences, FiniteSets, TLC

VARIABLES
    themeStore,   \* the themes directory: theme id -> stored JSON object or none
    pc,           \* position of the one poster request
    req,          \* the request's parameters
    theme,        \* local: the theme load_theme returned to the pipeline
    loc,          \* local: lat, lon from the geocoder
    graph,        \* local: the street graph from the geodata provider
    water,        \* local: the water collection, or the None of the except clause
    parks,        \* local: the park collection, or None
    calls,        \* the external calls issued so far, in order
    fig,          \* the matplotlib figure (canvas)
    files,        \* the files written: set of [name, data]
    outcome,      \* what the caller got back: return value, failure, exit status
    exported,     \* what the latest export/download operation returned
    nExports,     \* number of export operations performed on the figure
    fnArgs,       \* pure-function harness: the arguments of the call
    fnOut         \* pure-function harness: the value returned

vars == <<themeStore, pc, req, theme, loc, graph, water, parks, calls, fig,
          files, outcome, exported, nExports, fnArgs, fnOut>>

pipelineVars == <<pc, req, theme, loc, graph, water, parks, calls, fig,
                  files, outcome, exported, nExports>>

(***************************************************************************)
(* Bounds of the model.                                                    *)
(***************************************************************************)
MaxEdges == 2       \* edges of a graph handed to the classifier
MaxExports == 2     \* export operations on one figure
MaxMissing == 1     \* keys a stored theme lacks (or, for a sparse one, holds)
MaxMalformed == 1   \* roles of a stored theme whose value is malformed

None == [none |-> TRUE]

(***************************************************************************)
(* Strings as character sequences.                                         *)
(***************************************************************************)
UpperChars == <<"A","B","C","D","E","F","G","H","I","J","K","L","M",
                "N","O","P","Q","R","S","T","U","V","W","X","Y","Z">>
LowerChars == <<"a","b","c","d","e","f","g","h","i","j","k","l","m",
                "n","o","p","q","r","s","t","u","v","w","x","y","z">>

LowerChar(c) ==
    IF \E i \in DOMAIN UpperChars : UpperChars[i] = c
    THEN LowerChars[CHOOSE i \in DOMAIN UpperChars : UpperChars[i] = c]
    ELSE c

UpperChar(c) ==
    IF \E i \in DOMAIN LowerChars : LowerChars[i] = c
    THEN UpperChars[CHOOSE i \in DOMAIN LowerChars : LowerChars[i] = c]
    ELSE c

\* str.lower()
StrLower(s) == [i \in DOMAIN s |-> LowerChar(s[i])]

\* str.upper()
StrUpper(s) == [i \in DOMAIN s |-> UpperChar(s[i])]

\* str.replace(" ", "_")
ReplaceSpace(s) == [i \in DOMAIN s |-> IF s[i] = " " THEN "_" ELSE s[i]]

\* s[:n]
Prefix(s, n) == SubSeq(s, 1, IF Len(s) < n THEN Len(s) ELSE n)

\* "  ".join(s): the characters of s separated by two spaces
RECURSIVE JoinTwoSpaces(_)
JoinTwoSpaces(s) ==
    IF Len(s) <= 1 THEN s
    ELSE <<Head(s), " ", " ">> \o JoinTwoSpaces(Tail(s))

(***************************************************************************)
(* Fractions.                                                              *)
(***************************************************************************)
RECURSIVE GCD(_, _)
GCD(a, b) == IF b = 0 THEN a ELSE GCD(b, a % b)

Frac(n, d) == LET g == GCD(n, d) IN <<n \div g, d \div g>>

FracMul(k, f) == Frac(k * f[1], f[2])

(***************************************************************************)
(* Paper geometry: PAPER_SIZES, BLEED_MM, get_aspect_ratio.                *)
(***************************************************************************)
sPortrait  == <<"p","o","r","t","r","a","i","t">>
sLandscape == <<"l","a","n","d","s","c","a","p","e">>
sSquare    == <<"s","q","u","a","r","e">>

PAPER_SIZES == [A3 |-> <<297, 420>>, A4 |-> <<210, 297>>, A5 |-> <<148, 210>>]

BLEED_MM == 3

\* PAPER_SIZES.get(paper_size, PAPER_SIZES["A4"])
PaperBase(paper_size) ==
    IF paper_size \in DOMAIN PAPER_SIZES THEN PAPER_SIZES[paper_size]
    ELSE PAPER_SIZES["A4"]

MinOf(a, b) == IF a < b THEN a ELSE b

\* get_aspect_ratio returning height / width
get_aspect_ratio_Inverted(paper_size, orientation) ==
    LET base == PaperBase(paper_size)
        wh   == IF orientation = sLandscape THEN <<base[2], base[1]>>
                ELSE IF orientation = sSquare
                     THEN <<MinOf(base[1], base[2]), MinOf(base[1], base[2])>>
                     ELSE base
    IN  Frac(wh[2], wh[1])

get_aspect_ratio(paper_size, orientation) ==
    LET base == PaperBase(paper_size)
        wh   == IF orientation = sLandscape THEN <<base[2], base[1]>>
                ELSE IF orientation = sSquare
                     THEN <<MinOf(base[1], base[2]), MinOf(base[1], base[2])>>
                     ELSE base
    IN  Frac(wh[1], wh[2])

(***************************************************************************)
(* Theme resolver: DEFAULT_THEME, load_theme.                              *)
(***************************************************************************)
Hex6(a, b, c, d, e, f) == <<"#", a, b, c, d, e, f>>

DEFAULT_THEME ==
    [name             |-> <<"feature_based">>,
     description      |-> <<"Classic black & white with road hierarchy">>,
     bg               |-> Hex6("F","F","F","F","F","F"),
     text             |-> Hex6("0","0","0","0","0","0"),
     gradient_color   |-> Hex6("F","F","F","F","F","F"),
     water            |-> Hex6("C","0","C","0","C","0"),
     parks            |-> Hex6("F","0","F","0","F","0"),
     road_motorway    |-> Hex6("0","A","0","A","0","A"),
     road_primary     |-> Hex6("1","A","1","A","1","A"),
     road_secondary   |-> Hex6("2","A","2","A","2","A"),
     road_tertiary    |-> Hex6("3","A","3","A","3","A"),
     road_residential |-> Hex6("4","A","4","A","4","A"),
     road_default     |-> Hex6("3","A","3","A","3","A")]

\* the color roles of a theme (every key of DEFAULT_THEME but name, description)
Roles == DOMAIN DEFAULT_THEME \ {"name", "description"}

\* MergeDicts with the defaults forgotten
MergeDicts_OverrideOnly(d, t) == t

\* {**DEFAULT_THEME, **theme}
MergeDicts(d, t) ==
    [k \in DOMAIN d \cup DOMAIN t |-> IF k \in DOMAIN t THEN t[k] ELSE d[k]]

\* theme_file.exists(): themeStore holds the JSON object of every theme file
load_theme(theme_name) ==
    IF theme_name \in DOMAIN themeStore
    THEN MergeDicts(DEFAULT_THEME, themeStore[theme_name])
    ELSE DEFAULT_THEME

(***************************************************************************)
(* create_gradient_fade's hex parsing:                                     *)
(*   tuple(int(color.lstrip("#")[i:i+2], 16) / 255 for i in (0, 2, 4))     *)
(* int(s, 16) is modelled on digit strings only (no sign, blank or "_").   *)
(***************************************************************************)
HexDigits == <<"0","1","2","3","4","5","6","7","8","9",
               "A","B","C","D","E","F">>

IsHexDigit(c) == \E i \in DOMAIN HexDigits : HexDigits[i] = UpperChar(c)

HexDigitVal(c) ==
    (CHOOSE i \in DOMAIN HexDigits : HexDigits[i] = UpperChar(c)) - 1

\* color.lstrip("#")
RECURSIVE LStripHash(_)
LStripHash(s) ==
    IF s # <<>> /\ Head(s) = "#" THEN LStripHash(Tail(s)) ELSE s

\* s[i:i+2] with a 0-based i
Slice2(s, i) ==
    SubSeq(s, i + 1, IF Len(s) < i + 2 THEN Len(s) ELSE i + 2)

\* int(s, 16) succeeds
IntHexOk(s) == s # <<>> /\ \A k \in DOMAIN s : IsHexDigit(s[k])

\* int(s, 16)
RECURSIVE IntHex(_)
IntHex(s) ==
    IF s = <<>> THEN 0
    ELSE 16 * IntHex(SubSeq(s, 1, Len(s) - 1)) + HexDigitVal(s[Len(s)])

\* the rgb line raises ValueError unless all three slices parse
RgbParses(color) ==
    \A i \in {0, 2, 4} : IntHexOk(Slice2(LStripHash(color), i))

\* the three channels, each an integer numerator over 255
ParseRGB(color) ==
    [k \in 1..3 |-> IntHex(Slice2(LStripHash(color), 2 * (k - 1)))]

(***************************************************************************)
(* Road classifier: get_edge_colors_by_type, get_edge_widths_by_type.      *)
(* An edge is its data dict; a highway value is [str |-> s] for a str s    *)
(* and [list |-> <<s1, ...>>] for a list.                                  *)
(***************************************************************************)
Str(s) == [str |-> s]
Lst(l) == [list |-> l]

\* isinstance(highway, list)
IsList(highway) == "list" \in DOMAIN highway

\* HighwayOfColors taking the last element of a list
HighwayOfColors_LastToken(data) ==
    LET highway == IF "highway" \in DOMAIN data THEN data.highway ELSE Str("")
    IN  IF IsList(highway) THEN highway.list[Len(highway.list)] ELSE highway.str

\* data.get("highway", "") followed by the isinstance(highway, list) branch
HighwayOfColors(data) ==
    LET highway == IF "highway" \in DOMAIN data THEN data.highway ELSE Str("")
    IN  IF IsList(highway) THEN highway.list[1] ELSE highway.str

HighwayOfWidths(data) ==
    LET highway == IF "highway" \in DOMAIN data THEN data.highway ELSE Str("")
    IN  IF IsList(highway) THEN highway.list[1] ELSE highway.str

EdgeColor(data, th) ==
    LET highway == HighwayOfColors(data)
    IN  IF highway \in {"motorway", "motorway_link"} THEN th["road_motorway"]
        ELSE IF highway \in {"trunk", "trunk_link", "primary", "primary_link"}
             THEN th["road_primary"]
        ELSE IF highway \in {"secondary", "secondary_link"}
             THEN th["road_secondary"]
        ELSE IF highway \in {"tertiary", "tertiary_link"}
             THEN th["road_tertiary"]
        ELSE IF highway \in {"residential", "living_street"}
             THEN th["road_residential"]
        ELSE th["road_default"]

\* EdgeWidth with trunk roads given the motorway width
EdgeWidth_TrunkAsMotorway(data) ==
    LET highway == HighwayOfWidths(data)
    IN  IF highway \in {"motorway", "motorway_link", "trunk", "trunk_link"} THEN 12
        ELSE IF highway \in {"primary", "primary_link"} THEN 10
        ELSE IF highway \in {"secondary", "secondary_link"} THEN 8
        ELSE IF highway \in {"tertiary", "tertiary_link"} THEN 6
        ELSE IF highway \in {"residential", "living_street"} THEN 4
        ELSE 3

EdgeWidth(data) ==
    LET highway == HighwayOfWidths(data)
    IN  IF highway \in {"motorway", "motorway_link"} THEN 12
        ELSE IF highway \in {"trunk", "trunk_link", "primary", "primary_link"}
             THEN 10
        ELSE IF highway \in {"secondary", "secondary_link"} THEN 8
        ELSE IF highway \in {"tertiary", "tertiary_link"} THEN 6
        ELSE IF highway \in {"residential", "living_street"} THEN 4
        ELSE 3

\* the loop over graph.edges(data=True), appending one color per edge
RECURSIVE get_edge_colors_by_type(_, _)
get_edge_colors_by_type(g, th) ==
    IF g = <<>> THEN <<>>
    ELSE <<EdgeColor(Head(g), th)>> \o get_edge_colors_by_type(Tail(g), th)

\* the loop over graph.edges(data=True), appending one width per edge
RECURSIVE get_edge_widths_by_type(_)
get_edge_widths_by_type(g) ==
    IF g = <<>> THEN <<>>
    ELSE <<EdgeWidth(Head(g))>> \o get_edge_widths_by_type(Tail(g))

(***************************************************************************)
(* The caption's coordinate text (create_poster / create_poster_figure):   *)
(*   f"{abs(lat):.2f}°{'N' if lat >= 0 else 'S'} / {abs(lon):.2f}°{...}"   *)
(***************************************************************************)
Abs(x) == IF x < 0 THEN -x ELSE x

Digit(d) == HexDigits[d + 1]

RECURSIVE IntStr(_)
IntStr(n) == IF n < 10 THEN <<Digit(n)>> ELSE IntStr(n \div 10) \o <<Digit(n % 10)>>

\* Fmt2f cutting the third decimal off instead of rounding
Fmt2f_Truncate(x) ==
    LET h == x \div 100
    IN  IntStr(h \div 100) \o <<".", Digit((h \div 10) % 10), Digit(h % 10)>>

\* f"{x:.2f}" of a non-negative x given in ten-thousandths.  x is not halfway
\* between two hundredths (x % 100 # 50): there the digit depends on which side
\* of x its nearest double lies, and the inputs of the model avoid it.
Fmt2f(x) ==
    LET h == (x + 50) \div 100
    IN  IntStr(h \div 100) \o <<".", Digit((h \div 10) % 10), Digit(h % 10)>>

coord_text_poster(lat, lon) ==
    Fmt2f(Abs(lat)) \o <<"°", IF lat >= 0 THEN "N" ELSE "S">> \o <<" ", "/", " ">>
    \o Fmt2f(Abs(lon)) \o <<"°", IF lon >= 0 THEN "E" ELSE "W">>

coord_text_figure(lat, lon) ==
    Fmt2f(Abs(lat)) \o <<"°", IF lat >= 0 THEN "N" ELSE "S">> \o <<" ", "/", " ">>
    \o Fmt2f(Abs(lon)) \o <<"°", IF lon >= 0 THEN "E" ELSE "W">>

(***************************************************************************)
(* create_gradient_fade: the imshow call it issues.  Heights and extents   *)
(* are thousandths of the axes.  The image is the ramp                     *)
(* np.linspace(alpha_start, alpha_end, 100), kept as its three arguments;  *)
(* Linspace gives the value of each of its rows.  cmap holds the two       *)
(* colors given to LinearSegmentedColormap.from_list, the first for the    *)
(* lowest value of the image and the second for the highest.               *)
(***************************************************************************)
GRADIENT_STEPS == 100

\* np.linspace(start, stop, num)[r] for integers start, stop and 0-based r
Linspace(start, stop, num, r) ==
    LET n == start * (num - 1) + r * (stop - start)
    IN  IF n = 0 THEN <<0, 1>> ELSE Frac(n, num - 1)

\* create_gradient_fade with the ramp running from 0 up to 1
create_gradient_fade_RampUp(color, position, height) ==
    LET y_start == IF position = "top" THEN 1000 ELSE 0
        y_end   == IF position = "top" THEN 1000 - height ELSE height
    IN  [kind   |-> "imshow",
         extent |-> <<0, 1000, y_start, y_end>>,
         rows   |-> GRADIENT_STEPS,
         cols   |-> GRADIENT_STEPS,
         ramp   |-> [start |-> 0, stop |-> 1, num |-> GRADIENT_STEPS],
         rgb    |-> ParseRGB(color),
         cmap   |-> <<[rgb |-> ParseRGB(color), alpha |-> 1],
                      [rgb |-> ParseRGB(color), alpha |-> 0]>>,
         zorder |-> 10]

create_gradient_fade(color, position, height) ==
    LET y_start == IF position = "top" THEN 1000 ELSE 0
        y_end   == IF position = "top" THEN 1000 - height ELSE height
    IN  [kind   |-> "imshow",
         extent |-> <<0, 1000, y_start, y_end>>,
         rows   |-> GRADIENT_STEPS,
         cols   |-> GRADIENT_STEPS,
         ramp   |-> [start |-> 1, stop |-> 0, num |-> GRADIENT_STEPS],
         rgb    |-> ParseRGB(color),
         cmap   |-> <<[rgb |-> ParseRGB(color), alpha |-> 1],
                      [rgb |-> ParseRGB(color), alpha |-> 0]>>,
         zorder |-> 10]

\* ax.imshow(gradient, extent=[left, right, y3, y4]) with the default
\* origin="upper": row 0 of the image lies at the extent's fourth value and
\* the last row at its third.  The boundary of 0-based row r on the side of
\* row 0, in thousandths of the axes times the number of rows.
ImshowRowEdge(op, r) ==
    op.extent[4] * op.rows + r * (op.extent[3] - op.extent[4])

\* the alpha imshow paints row r with: the row's value, normalized over the
\* image's lowest and highest value, taken linearly between the alphas of the
\* colormap's two colors (the colormap's 256 levels are taken as exact)
ImshowRowAlpha(op, r) ==
    LET d  == Linspace(op.ramp.start, op.ramp.stop, op.ramp.num, r)
        lo == IF op.ramp.start < op.ramp.stop THEN op.ramp.start ELSE op.ramp.stop
        hi == IF op.ramp.start < op.ramp.stop THEN op.ramp.stop ELSE op.ramp.start
        a0 == op.cmap[1].alpha
        a1 == op.cmap[2].alpha
        n  == a0 * (hi - lo) * d[2] + (d[1] - lo * d[2]) * (a1 - a0)
    IN  IF n = 0 THEN <<0, 1>> ELSE Frac(n, (hi - lo) * d[2])

(***************************************************************************)
(* The draw operations of the two pipeline variants, in program order.     *)
(* Positions are thousandths of the axes, font sizes and line widths are   *)
(* points, alphas are tenths.  ox.plot_graph is given no zorder by either  *)
(* variant, so the roads operation carries none.                           *)
(***************************************************************************)
\* create_poster lines 269-293: subplots, water, parks, roads
PosterGeometryOps(th, g, w, p) ==
    <<[kind |-> "background", color |-> th["bg"]]>>
    \o (IF w # None /\ w.features # <<>>
        THEN <<[kind |-> "water", data |-> w.features, color |-> th["water"], zorder |-> 1]>>
        ELSE <<>>)
    \o (IF p # None /\ p.features # <<>>
        THEN <<[kind |-> "parks", data |-> p.features, color |-> th["parks"], zorder |-> 2]>>
        ELSE <<>>)
    \o <<[kind |-> "roads", node_size |-> 0,
          edge_color |-> get_edge_colors_by_type(g, th),
          edge_linewidth |-> get_edge_widths_by_type(g),
          bgcolor |-> th["bg"]]>>

\* create_poster lines 295-359: fades and caption
PosterOverlayOps(th, city, country, lat, lon) ==
    <<create_gradient_fade(th["gradient_color"], "top", 80),
      create_gradient_fade(th["gradient_color"], "bottom", 200),
      [kind |-> "text", at |-> <<500, 140>>, s |-> JoinTwoSpaces(StrUpper(city)),
       fontsize |-> 28, bold |-> TRUE, color |-> th["text"], ha |-> "center",
       va |-> "center", alpha |-> 10, zorder |-> 11],
      [kind |-> "line", xs |-> <<350, 650>>, ys |-> <<125, 125>>,
       color |-> th["text"], linewidth |-> 1, zorder |-> 11],
      [kind |-> "text", at |-> <<500, 100>>, s |-> StrUpper(country),
       fontsize |-> 12, bold |-> FALSE, color |-> th["text"], ha |-> "center",
       va |-> "center", alpha |-> 10, zorder |-> 11],
      [kind |-> "text", at |-> <<500, 70>>, s |-> coord_text_poster(lat, lon),
       fontsize |-> 10, bold |-> FALSE, color |-> th["text"], ha |-> "center",
       va |-> "center", alpha |-> 7, zorder |-> 11],
      [kind |-> "text", at |-> <<980, 20>>, s |-> <<"© OpenStreetMap">>,
       fontsize |-> 6, bold |-> FALSE, color |-> th["text"], ha |-> "right",
       va |-> "bottom", alpha |-> 5, zorder |-> 11]>>

\* FigureGeometryOps drawing the parks before the water
FigureGeometryOps_ParksFirst(th, g, w, p) ==
    <<[kind |-> "background", color |-> th["bg"]]>>
    \o (IF p # None /\ p.features # <<>>
        THEN <<[kind |-> "parks", data |-> p.features, color |-> th["parks"], zorder |-> 2]>>
        ELSE <<>>)
    \o (IF w # None /\ w.features # <<>>
        THEN <<[kind |-> "water", data |-> w.features, color |-> th["water"], zorder |-> 1]>>
        ELSE <<>>)
    \o <<[kind |-> "roads", node_size |-> 0,
          edge_color |-> get_edge_colors_by_type(g, th),
          edge_linewidth |-> get_edge_widths_by_type(g),
          bgcolor |-> th["bg"]]>>

\* create_poster_figure lines 463-487
FigureGeometryOps(th, g, w, p) ==
    <<[kind |-> "background", color |-> th["bg"]]>>
    \o (IF w # None /\ w.features # <<>>
        THEN <<[kind |-> "water", data |-> w.features, color |-> th["water"], zorder |-> 1]>>
        ELSE <<>>)
    \o (IF p # None /\ p.features # <<>>
        THEN <<[kind |-> "parks", data |-> p.features, color |-> th["parks"], zorder |-> 2]>>
        ELSE <<>>)
    \o <<[kind |-> "roads", node_size |-> 0,
          edge_color |-> get_edge_colors_by_type(g, th),
          edge_linewidth |-> get_edge_widths_by_type(g),
          bgcolor |-> th["bg"]]>>

\* create_poster_figure lines 489-553
FigureOverlayOps(th, city, country, lat, lon) ==
    <<create_gradient_fade(th["gradient_color"], "top", 80),
      create_gradient_fade(th["gradient_color"], "bottom", 200),
      [kind |-> "text", at |-> <<500, 140>>, s |-> JoinTwoSpaces(StrUpper(city)),
       fontsize |-> 28, bold |-> TRUE, color |-> th["text"], ha |-> "center",
       va |-> "center", alpha |-> 10, zorder |-> 11],
      [kind |-> "line", xs |-> <<350, 650>>, ys |-> <<125, 125>>,
       color |-> th["text"], linewidth |-> 1, zorder |-> 11],
      [kind |-> "text", at |-> <<500, 100>>, s |-> StrUpper(country),
       fontsize |-> 12, bold |-> FALSE, color |-> th["text"], ha |-> "center",
       va |-> "center", alpha |-> 10, zorder |-> 11],
      [kind |-> "text", at |-> <<500, 70>>, s |-> coord_text_figure(lat, lon),
       fontsize |-> 10, bold |-> FALSE, color |-> th["text"], ha |-> "center",
       va |-> "center", alpha |-> 7, zorder |-> 11],
      [kind |-> "text", at |-> <<980, 20>>, s |-> <<"© OpenStreetMap">>,
       fontsize |-> 6, bold |-> FALSE, color |-> th["text"], ha |-> "right",
       va |-> "bottom", alpha |-> 5, zorder |-> 11]>>

(***************************************************************************)
(* The figure and its serializations.  A figure is                         *)
(*   [open, size (inches, fractions), facecolor, region, ops].             *)
(* region is "default" after plt.subplots, "tight" after                   *)
(* tight_layout(pad=0), "full" after subplots_adjust(0, 1, 1, 0).          *)
(***************************************************************************)
NewFigure(w, h, facecolor) ==
    [open |-> TRUE, size |-> <<w, h>>, facecolor |-> facecolor,
     region |-> "default", ops |-> <<>>]

\* fig.savefig(..., format="pdf", facecolor=bg_color, edgecolor="none")
SavefigPdf(f, bg_color) ==
    [fmt |-> "pdf", page |-> f.size, facecolor |-> bg_color,
     region |-> f.region, content |-> f.ops]

\* fig.savefig(..., dpi=dpi, bbox_inches="tight", pad_inches=0, facecolor=...)
SavefigPng(f, dpi, facecolor) ==
    [fmt |-> "png", dpi |-> dpi, size |-> f.size, bbox |-> "tight",
     facecolor |-> facecolor, region |-> f.region, content |-> f.ops]

(***************************************************************************)
(* _add_crop_marks: the eight segments it plots on its own figure, and the *)
(* value it returns.  Segments are <<<<x1, x2>>, <<y1, y2>>>> in mm.       *)
(***************************************************************************)
CROP_OFFSET == 10
MARK_LENGTH == 5
MARK_OFFSET == 3
CROP_EXTRA == 20

CropCorners(width_mm, height_mm, bleed_mm) ==
    <<<<CROP_OFFSET + bleed_mm, CROP_OFFSET + bleed_mm>>,
      <<CROP_OFFSET + bleed_mm + width_mm, CROP_OFFSET + bleed_mm>>,
      <<CROP_OFFSET + bleed_mm, CROP_OFFSET + bleed_mm + height_mm>>,
      <<CROP_OFFSET + bleed_mm + width_mm, CROP_OFFSET + bleed_mm + height_mm>>>>

\* HorizontalMark drawn towards the page interior
HorizontalMark_Inward(cx, cy, bleed_mm) ==
    IF cx = CROP_OFFSET + bleed_mm
    THEN <<<<cx + MARK_OFFSET, cx + MARK_OFFSET + MARK_LENGTH>>, <<cy, cy>>>>
    ELSE <<<<cx - MARK_OFFSET - MARK_LENGTH, cx - MARK_OFFSET>>, <<cy, cy>>>>

\* the horizontal mark at corner <<cx, cy>>
HorizontalMark(cx, cy, bleed_mm) ==
    IF cx = CROP_OFFSET + bleed_mm
    THEN <<<<cx - MARK_OFFSET - MARK_LENGTH, cx - MARK_OFFSET>>, <<cy, cy>>>>
    ELSE <<<<cx + MARK_OFFSET, cx + MARK_OFFSET + MARK_LENGTH>>, <<cy, cy>>>>

\* the vertical mark at corner <<cx, cy>>
VerticalMark(cx, cy, bleed_mm) ==
    IF cy = CROP_OFFSET + bleed_mm
    THEN <<<<cx, cx>>, <<cy - MARK_OFFSET - MARK_LENGTH, cy - MARK_OFFSET>>>>
    ELSE <<<<cx, cx>>, <<cy + MARK_OFFSET, cy + MARK_OFFSET + MARK_LENGTH>>>>

\* the plot calls of the loop over corners, in order
CropMarkSegments(width_mm, height_mm, bleed_mm) ==
    LET corners == CropCorners(width_mm, height_mm, bleed_mm)
        Marks(c) == <<HorizontalMark(c[1], c[2], bleed_mm),
                      VerticalMark(c[1], c[2], bleed_mm)>>
    IN  Marks(corners[1]) \o Marks(corners[2]) \o Marks(corners[3]) \o Marks(corners[4])

\* fig_marks: the overlay figure that is drawn and then closed
CropMarkFigure(width_mm, height_mm, bleed_mm) ==
    [open |-> FALSE,
     size |-> <<Frac((width_mm + 2 * bleed_mm + CROP_EXTRA) * 10, 254),
                Frac((height_mm + 2 * bleed_mm + CROP_EXTRA) * 10, 254)>>,
     facecolor |-> <<"white">>, region |-> "default",
     ops |-> CropMarkSegments(width_mm, height_mm, bleed_mm)]

\* _add_crop_marks merging the marks into the page it returns
_add_crop_marks_Merged(pdf_bytes, width_mm, height_mm, bleed_mm) ==
    LET fig_marks == CropMarkFigure(width_mm, height_mm, bleed_mm)
    IN  [pdf_bytes EXCEPT !.content =
            @ \o [i \in DOMAIN fig_marks.ops |->
                     [kind |-> "cropmark", segment |-> fig_marks.ops[i]]]]

\* plt.close(fig_marks); return pdf_bytes
_add_crop_marks(pdf_bytes, width_mm, height_mm, bleed_mm) ==
    LET fig_marks == CropMarkFigure(width_mm, height_mm, bleed_mm)
    IN  pdf_bytes

(***************************************************************************)
(* export_pdf.                                                             *)
(***************************************************************************)
\* ExportPageMm with the bleed added once per axis instead of on both sides
ExportPageMm_BleedOnce(paper_size, orientation, print_ready) ==
    LET base == PaperBase(paper_size)
        wh   == IF orientation = sLandscape THEN <<base[2], base[1]>>
                ELSE IF orientation = sSquare
                     THEN <<MinOf(base[1], base[2]), MinOf(base[1], base[2])>>
                     ELSE base
    IN  IF print_ready
        THEN <<wh[1] + BLEED_MM, wh[2] + BLEED_MM>>
        ELSE wh

\* lines 586-599: the page size in mm
ExportPageMm(paper_size, orientation, print_ready) ==
    LET base == PaperBase(paper_size)
        wh   == IF orientation = sLandscape THEN <<base[2], base[1]>>
                ELSE IF orientation = sSquare
                     THEN <<MinOf(base[1], base[2]), MinOf(base[1], base[2])>>
                     ELSE base
    IN  IF print_ready
        THEN <<wh[1] + 2 * BLEED_MM, wh[2] + 2 * BLEED_MM>>
        ELSE wh

\* mm / 25.4
MmToInches(mm) == Frac(mm * 10, 254)

\* ResizeToPage leaving alone a figure an earlier export has resized
ResizeToPage_FirstOnly(f, width_mm, height_mm) ==
    IF f.region = "full" THEN f
    ELSE [f EXCEPT !.size = <<MmToInches(width_mm), MmToInches(height_mm)>>,
                   !.region = "full"]

\* lines 601-609: set_size_inches and subplots_adjust
ResizeToPage(f, width_mm, height_mm) ==
    [f EXCEPT !.size = <<MmToInches(width_mm), MmToInches(height_mm)>>,
              !.region = "full"]

\* lines 628-633: the width, height and bleed handed to _add_crop_marks
CropMarkArgs(width_mm, height_mm) ==
    <<width_mm - 2 * BLEED_MM, height_mm - 2 * BLEED_MM, BLEED_MM>>

\* lines 611-645: the bytes of the PDF, given the resized figure
ExportPdfBytes(f, width_mm, height_mm, print_ready) ==
    IF print_ready
    THEN LET a == CropMarkArgs(width_mm, height_mm)
         IN  _add_crop_marks(SavefigPdf(f, f.facecolor), a[1], a[2], a[3])
    ELSE SavefigPdf(f, f.facecolor)

\* PdfFilename without the lower()
PdfFilename_NoLower(city, theme_name, paper_size, orientation, print_ready) ==
    ReplaceSpace(city) \o <<"_", theme_name, "_", paper_size, "_">>
    \o Prefix(orientation, 4)
    \o (IF print_ready THEN <<"_printready">> ELSE <<>>) \o <<".pdf">>

\* lines 650-652: the file name
PdfFilename(city, theme_name, paper_size, orientation, print_ready) ==
    ReplaceSpace(StrLower(city)) \o <<"_", theme_name, "_", paper_size, "_">>
    \o Prefix(orientation, 4)
    \o (IF print_ready THEN <<"_printready">> ELSE <<>>) \o <<".pdf">>

\* export_pdf serializing the figure before it is resized
export_pdf_SaveBeforeResize(f, city, theme_name, paper_size, orientation, print_ready, output_dir) ==
    LET mm        == ExportPageMm(paper_size, orientation, print_ready)
        resized   == ResizeToPage(f, mm[1], mm[2])
        pdf_bytes == ExportPdfBytes(f, mm[1], mm[2], print_ready)
    IN  [fig     |-> resized,
         bytes   |-> pdf_bytes,
         written |-> IF output_dir # None
                     THEN {[dir |-> output_dir,
                            name |-> PdfFilename(city, theme_name, paper_size,
                                                 orientation, print_ready),
                            data |-> pdf_bytes]}
                     ELSE {}]

\* the whole call: the figure as it leaves it, the bytes returned, the files written
export_pdf(f, city, theme_name, paper_size, orientation, print_ready, output_dir) ==
    LET mm        == ExportPageMm(paper_size, orientation, print_ready)
        resized   == ResizeToPage(f, mm[1], mm[2])
        pdf_bytes == ExportPdfBytes(resized, mm[1], mm[2], print_ready)
    IN  [fig     |-> resized,
         bytes   |-> pdf_bytes,
         written |-> IF output_dir # None
                     THEN {[dir |-> output_dir,
                            name |-> PdfFilename(city, theme_name, paper_size,
                                                 orientation, print_ready),
                            data |-> pdf_bytes]}
                     ELSE {}]

\* a file written at a path replaces the file that was there
WriteFiles(fs, written) ==
    {f \in fs : \A w \in written : <<w.dir, w.name>> # <<f.dir, f.name>>} \cup written

(***************************************************************************)
(* Inputs of the model.                                                    *)
(***************************************************************************)
Places ==
    {[city |-> <<"P","a","r","i","s">>, country |-> <<"F","r","a","n","c","e">>,
      at |-> [lat |-> 488566, lon |-> 23522]],
     [city |-> <<"N","e","w"," ","Y","o","r","k">>, country |-> <<"U","S","A">>,
      at |-> [lat |-> 407128, lon |-> -740060]]}

\* a complete stored theme, with a key that is no role
NoirTheme ==
    [name             |-> <<"Noir">>,
     description      |-> <<"White on black">>,
     bg               |-> Hex6("0","0","0","0","0","0"),
     text             |-> Hex6("F","F","F","F","F","F"),
     gradient_color   |-> Hex6("0","0","0","0","0","0"),
     water            |-> Hex6("1","1","2","2","3","3"),
     parks            |-> Hex6("0","0","3","3","0","0"),
     road_motorway    |-> Hex6("F","F","F","F","F","F"),
     road_primary     |-> Hex6("E","E","E","E","E","E"),
     road_secondary   |-> Hex6("D","D","D","D","D","D"),
     road_tertiary    |-> Hex6("C","C","C","C","C","C"),
     road_residential |-> Hex6("B","B","B","B","B","B"),
     road_default     |-> Hex6("A","A","A","A","A","A"),
     font             |-> <<"serif">>]

\* role values that are no "#RRGGBB" color
MalformedValues ==
    {<<"b","l","u","e">>, <<"#","F","F">>, <<>>, Hex6("G","G","0","0","0","0")}

\* the themes directory of the pipeline runs: one complete theme, one partial
\* theme with a malformed gradient color; "feature_based" has no file
MainStore ==
    [noir   |-> NoirTheme,
     broken |-> [water |-> Hex6("0","0","0","0","F","F"),
                 gradient_color |-> <<"b","l","u","e">>]]

ThemeNames == {"feature_based", "noir", "broken"}

PaperNames == {"A3", "A4", "A5", "Letter"}

Orientations == {sPortrait, sLandscape, sSquare}

OutputDirs == {None, [path |-> <<"out">>]}

\* the street graph the provider returns to the pipeline runs
MainGraph ==
    <<[highway |-> Str("motorway"), length |-> 120],
      [highway |-> Lst(<<"residential", "footway">>), length |-> 40],
      [length |-> 7]>>

\* what the provider answers to a features query; None stands for a raise
FeatureResponses == {None, [features |-> <<>>], [features |-> <<"polygon">>]}

\* what the provider answers to the graph query; None stands for a raise
GraphResponses == {None, [edges |-> MainGraph]}

\* what the geocoder answers for a place; None is "no match"
GeocoderResponses(city) == {None} \cup {pl.at : pl \in {q \in Places : q.city = city}}

Timestamps == {<<"20240101_120000">>}

DEFAULT_THEME_NAME == "feature_based"

DEFAULT_DISTANCE == 29000

DEFAULT_DPI == 300

PREVIEW_DPI == 72

WebDpis == {150, 300}

(***************************************************************************)
(* The poster request: cli.main -> create_poster, webapp.main ->           *)
(* create_poster_figure, or a direct call of create_poster_figure ("api"). *)
(* One action per external call; the rendering after the last fetch is one *)
(* action.                                                                 *)
(***************************************************************************)
InitPipeline ==
    /\ pc = "idle"
    /\ req = None
    /\ theme = None
    /\ loc = None
    /\ graph = None
    /\ water = None
    /\ parks = None
    /\ calls = <<>>
    /\ fig = None
    /\ files = {}
    /\ outcome = None
    /\ exported = None
    /\ nExports = 0

\* the exceptions that leave the pipeline
LocationNotFound == "ValueError: Could not find coordinates"
GraphFetchFailed == "graph_from_point raised"
InvalidHexColor  == "ValueError: invalid literal for int() with base 16"

\* an exception leaves the pipeline: what each caller makes of it
Raised(e) ==
    IF req.caller = "cli" THEN [kind |-> "exit", code |-> 1, error |-> e]
    ELSE IF req.caller = "web" THEN [kind |-> "st_error", error |-> e]
    ELSE [kind |-> "raised", error |-> e]

\* cli.main lines 80-89 and create_poster lines 216-225
CliMain(place, theme_name, output_dir) ==
    /\ pc = "idle"
    /\ req' = [caller |-> "cli", fn |-> "create_poster", city |-> place.city,
               country |-> place.country, theme_name |-> theme_name,
               distance |-> DEFAULT_DISTANCE, dpi |-> DEFAULT_DPI,
               output_dir |-> IF output_dir = None THEN [path |-> <<"posters">>]
                              ELSE output_dir,
               aspect_ratio |-> None]
    /\ theme' = load_theme(theme_name)
    /\ pc' = "geocode"
    /\ UNCHANGED <<themeStore, loc, graph, water, parks, calls, fig, files,
                   outcome, exported, nExports, fnArgs, fnOut>>

\* webapp.main lines 72-80, 146-150: a rerun with a theme of list_themes
WebRerun(place, theme_name) ==
    /\ pc = "idle"
    /\ req' = [caller |-> "web", fn |-> "create_poster_figure", city |-> place.city,
               country |-> place.country, theme_name |-> theme_name,
               distance |-> DEFAULT_DISTANCE, dpi |-> DEFAULT_DPI,
               output_dir |-> None, aspect_ratio |-> None]
    /\ pc' = "preview"
    /\ UNCHANGED <<themeStore, theme, loc, graph, water, parks, calls, fig, files,
                   outcome, exported, nExports, fnArgs, fnOut>>

\* webapp.main lines 146-214: get_coordinates for the preview, then the button
\* and create_poster_figure lines 408-412
WebPreviewStep(r) ==
    /\ calls' = Append(calls, [svc |-> "geocode",
                               by |-> "webapp.main",
                               query |-> req.city \o <<",", " ">> \o req.country])
    /\ IF r = None
       THEN /\ pc' = "failed"
            /\ outcome' = [kind |-> "st_error", error |-> LocationNotFound]
            /\ UNCHANGED theme
       ELSE /\ pc' = "geocode"
            /\ theme' = load_theme(req.theme_name)
            /\ UNCHANGED outcome
    /\ UNCHANGED <<themeStore, req, loc, graph, water, parks, fig, files,
                   exported, nExports, fnArgs, fnOut>>

WebPreview ==
    /\ pc = "preview"
    /\ \E r \in GeocoderResponses(req.city) : WebPreviewStep(r)

\* a direct call of create_poster_figure with the default theme_name, lines
\* 408-412; the caller may have asked get_aspect_ratio for the ratio of a page
ApiFigure(place, aspect_ratio) ==
    /\ pc = "idle"
    /\ req' = [caller |-> "api", fn |-> "create_poster_figure", city |-> place.city,
               country |-> place.country, theme_name |-> DEFAULT_THEME_NAME,
               distance |-> DEFAULT_DISTANCE, dpi |-> DEFAULT_DPI,
               output_dir |-> None, aspect_ratio |-> aspect_ratio]
    /\ theme' = load_theme(DEFAULT_THEME_NAME)
    /\ pc' = "geocode"
    /\ UNCHANGED <<themeStore, loc, graph, water, parks, calls, fig, files,
                   outcome, exported, nExports, fnArgs, fnOut>>

\* get_coordinates: geocode once; None raises ValueError, which propagates
GetCoordinatesStep(r) ==
    /\ calls' = Append(calls, [svc |-> "geocode",
                               by |-> req.fn,
                               query |-> req.city \o <<",", " ">> \o req.country])
    /\ IF r = None
       THEN /\ pc' = "failed"
            /\ outcome' = Raised(LocationNotFound)
            /\ theme' = None
            /\ UNCHANGED loc
       ELSE /\ pc' = "graph"
            /\ loc' = r
            /\ UNCHANGED <<outcome, theme>>
    /\ UNCHANGED <<themeStore, req, graph, water, parks, fig, files,
                   exported, nExports, fnArgs, fnOut>>

GetCoordinates ==
    /\ pc = "geocode"
    /\ \E r \in GeocoderResponses(req.city) : GetCoordinatesStep(r)

\* FetchGraph with one retry of a failed fetch
FetchGraph_Retry(r) ==
    /\ pc = "graph"
    /\ LET call == [svc |-> "graph", by |-> req.fn, point |-> loc,
                    dist |-> req.distance]
       IN  calls' = IF r = None THEN calls \o <<call, call>> ELSE Append(calls, call)
    /\ IF r = None
       THEN /\ pc' = "failed"
            /\ outcome' = Raised(GraphFetchFailed)
            /\ theme' = None
            /\ loc' = None
            /\ UNCHANGED graph
       ELSE /\ pc' = "water"
            /\ graph' = r
            /\ UNCHANGED <<outcome, theme, loc>>
    /\ UNCHANGED <<themeStore, req, water, parks, fig, files,
                   exported, nExports, fnArgs, fnOut>>

\* ox.graph_from_point(point, dist=distance, network_type="all"), not guarded
FetchGraph(r) ==
    /\ pc = "graph"
    /\ calls' = Append(calls, [svc |-> "graph", by |-> req.fn, point |-> loc,
                               dist |-> req.distance])
    /\ IF r = None
       THEN /\ pc' = "failed"
            /\ outcome' = Raised(GraphFetchFailed)
            /\ theme' = None
            /\ loc' = None
            /\ UNCHANGED graph
       ELSE /\ pc' = "water"
            /\ graph' = r
            /\ UNCHANGED <<outcome, theme, loc>>
    /\ UNCHANGED <<themeStore, req, water, parks, fig, files,
                   exported, nExports, fnArgs, fnOut>>

\* FetchWater without the try/except
FetchWater_Fatal(r) ==
    /\ pc = "water"
    /\ calls' = Append(calls, [svc |-> "water", by |-> req.fn, point |-> loc,
                               dist |-> req.distance])
    /\ IF r = None
       THEN /\ pc' = "failed"
            /\ outcome' = Raised("features_from_point raised")
            /\ theme' = None
            /\ loc' = None
            /\ graph' = None
            /\ UNCHANGED water
       ELSE /\ pc' = "parks"
            /\ water' = r
            /\ UNCHANGED <<outcome, theme, loc, graph>>
    /\ UNCHANGED <<themeStore, req, parks, fig, files,
                   exported, nExports, fnArgs, fnOut>>

\* the first try/except: features_from_point for water
FetchWater(r) ==
    /\ pc = "water"
    /\ calls' = Append(calls, [svc |-> "water", by |-> req.fn, point |-> loc,
                               dist |-> req.distance])
    /\ water' = r
    /\ pc' = "parks"
    /\ UNCHANGED <<themeStore, req, theme, loc, graph, parks, fig, files,
                   outcome, exported, nExports, fnArgs, fnOut>>

\* the second try/except: features_from_point for parks
FetchParks(r) ==
    /\ pc = "parks"
    /\ calls' = Append(calls, [svc |-> "parks", by |-> req.fn, point |-> loc,
                               dist |-> req.distance])
    /\ parks' = r
    /\ pc' = "render"
    /\ UNCHANGED <<themeStore, req, theme, loc, graph, water, fig, files,
                   outcome, exported, nExports, fnArgs, fnOut>>

\* the locals of the pipeline function are gone once it returns or raises
LocalsDropped ==
    /\ theme' = None
    /\ loc' = None
    /\ graph' = None
    /\ water' = None
    /\ parks' = None

\* create_poster lines 265-382: draw, save the PNG, close the figure.  The
\* ValueError of create_gradient_fade leaves the figure open and half drawn.
RenderPoster(ts) ==
    /\ pc = "render"
    /\ req.fn = "create_poster"
    /\ LET drawn == [NewFigure(<<12, 1>>, <<16, 1>>, theme["bg"]) EXCEPT
                        !.ops = PosterGeometryOps(theme, graph.edges, water, parks)]
       IN  IF ~RgbParses(theme["gradient_color"])
           THEN /\ fig' = drawn
                /\ pc' = "failed"
                /\ outcome' = Raised(InvalidHexColor)
                /\ UNCHANGED files
           ELSE LET done == [drawn EXCEPT
                                !.ops = @ \o PosterOverlayOps(theme, req.city,
                                                req.country, loc.lat, loc.lon),
                                !.region = "tight"]
                    filename == ReplaceSpace(StrLower(req.city))
                                \o <<"_", req.theme_name, "_">> \o ts \o <<".png">>
                    written == {[dir |-> req.output_dir, name |-> filename,
                                 data |-> SavefigPng(done, req.dpi, theme["bg"])]}
                IN  /\ files' = WriteFiles(files, written)
                    /\ fig' = [done EXCEPT !.open = FALSE]
                    /\ pc' = "done"
                    /\ outcome' = [kind |-> "exit", code |-> 0,
                                   output_path |-> [dir |-> req.output_dir,
                                                    name |-> filename]]
    /\ LocalsDropped
    /\ UNCHANGED <<themeStore, req, calls, exported, nExports, fnArgs, fnOut>>

\* create_poster_figure lines 452-559: draw and return the open figure; the web
\* app then stores it and renders the preview (webapp.main lines 216-234)
RenderFigure ==
    /\ pc = "render"
    /\ req.fn = "create_poster_figure"
    /\ LET fig_height == <<16, 1>>
           fig_width  == IF req.aspect_ratio # None
                         THEN FracMul(16, req.aspect_ratio.ratio)
                         ELSE <<12, 1>>
           drawn == [NewFigure(fig_width, fig_height, theme["bg"]) EXCEPT
                        !.ops = FigureGeometryOps(theme, graph.edges, water, parks)]
       IN  IF ~RgbParses(theme["gradient_color"])
           THEN /\ fig' = drawn
                /\ pc' = "failed"
                /\ outcome' = Raised(InvalidHexColor)
           ELSE LET done == [drawn EXCEPT
                                !.ops = @ \o FigureOverlayOps(theme, req.city,
                                                req.country, loc.lat, loc.lon),
                                !.region = "tight"]
                IN  /\ fig' = done
                    /\ pc' = "done"
                    /\ outcome' =
                         IF req.caller = "web"
                         THEN [kind |-> "session", poster_city |-> req.city,
                               poster_theme |-> req.theme_name,
                               poster_preview |->
                                   SavefigPng(done, PREVIEW_DPI, done.facecolor)]
                         ELSE [kind |-> "figure", lat |-> loc.lat, lon |-> loc.lon]
    /\ LocalsDropped
    /\ UNCHANGED <<themeStore, req, calls, files, exported, nExports, fnArgs, fnOut>>

(***************************************************************************)
(* Exports of the figure a completed create_poster_figure handed out.      *)
(***************************************************************************)
\* history: the call about to be made repeats the parameters of the export_pdf
\* call made just before it on the same figure
SameCallAsLast(paper_size, orientation, print_ready, output_dir) ==
    /\ exported # None
    /\ exported.op = "export_pdf"
    /\ exported.paper_size = paper_size
    /\ exported.orientation = orientation
    /\ exported.print_ready = print_ready
    /\ exported.output_dir = output_dir

\* a direct call of export_pdf on the returned figure
ExportPdf(paper_size, orientation, print_ready, output_dir) ==
    /\ pc = "done"
    /\ outcome.kind = "figure"
    /\ nExports < MaxExports
    /\ LET r == export_pdf(fig, req.city, req.theme_name, paper_size,
                           orientation, print_ready, output_dir)
       IN  /\ fig' = r.fig
           /\ files' = WriteFiles(files, r.written)
           /\ exported' = [op |-> "export_pdf", paper_size |-> paper_size,
                           orientation |-> orientation,
                           print_ready |-> print_ready,
                           output_dir |-> output_dir, bytes |-> r.bytes,
                           repeated |-> SameCallAsLast(paper_size, orientation,
                                                       print_ready, output_dir)]
    /\ nExports' = nExports + 1
    /\ UNCHANGED <<themeStore, pc, req, theme, loc, graph, water, parks, calls,
                   outcome, fnArgs, fnOut>>

\* webapp.main lines 275-315: the PDF branch of a rerun calls export_pdf twice
\* on the stored figure; orientation is the selectbox value lower-cased
WebPdfDownload(paper_size, Orientation) ==
    /\ pc = "done"
    /\ outcome.kind = "session"
    /\ nExports < MaxExports
    /\ LET orient_lower == StrLower(Orientation)
           home  == export_pdf(fig, outcome.poster_city, outcome.poster_theme,
                               paper_size, orient_lower, FALSE, None)
           print == export_pdf(home.fig, outcome.poster_city, outcome.poster_theme,
                               paper_size, orient_lower, TRUE, None)
           filename_home ==
               ReplaceSpace(StrLower(outcome.poster_city))
               \o <<"_", outcome.poster_theme, "_", paper_size, "_">>
               \o Prefix(orient_lower, 4) \o <<".pdf">>
           filename_print ==
               ReplaceSpace(StrLower(outcome.poster_city))
               \o <<"_", outcome.poster_theme, "_", paper_size, "_">>
               \o Prefix(orient_lower, 4) \o <<"_printready", ".pdf">>
       IN  /\ fig' = print.fig
           /\ files' = WriteFiles(WriteFiles(files, home.written), print.written)
           /\ exported' = [op |-> "web_pdf", paper_size |-> paper_size,
                           orientation |-> orient_lower,
                           repeated |-> /\ exported # None
                                        /\ exported.op = "web_pdf"
                                        /\ exported.paper_size = paper_size
                                        /\ exported.orientation = orient_lower,
                           pdf_home |-> home.bytes, filename_home |-> filename_home,
                           pdf_print |-> print.bytes,
                           filename_print |-> filename_print]
    /\ nExports' = nExports + 1
    /\ UNCHANGED <<themeStore, pc, req, theme, loc, graph, water, parks, calls,
                   outcome, fnArgs, fnOut>>

\* webapp.main lines 253-273: the PNG branch of a rerun
WebPngDownload(dpi) ==
    /\ pc = "done"
    /\ outcome.kind = "session"
    /\ nExports < MaxExports
    /\ exported' = [op |-> "web_png",
                    data |-> SavefigPng(fig, dpi, fig.facecolor),
                    file_name |-> ReplaceSpace(StrLower(outcome.poster_city))
                                  \o <<"_", outcome.poster_theme, ".png">>]
    /\ nExports' = nExports + 1
    /\ UNCHANGED <<themeStore, pc, req, theme, loc, graph, water, parks, calls,
                   fig, files, outcome, fnArgs, fnOut>>

\* the selectbox options of the web app
WebOrientations ==
    {<<"P","o","r","t","r","a","i","t">>, <<"L","a","n","d","s","c","a","p","e">>,
     <<"S","q","u","a","r","e">>}

\* the ratios a caller of create_poster_figure passes
ApiAspectRatios ==
    {None} \cup {[paper_size |-> "A4", orientation |-> o,
                  ratio |-> get_aspect_ratio("A4", o)] : o \in {sLandscape}}

Init ==
    /\ themeStore = MainStore
    /\ InitPipeline
    /\ fnArgs = None
    /\ fnOut = None

Next ==
    \/ \E place \in Places, theme_name \in ThemeNames, output_dir \in OutputDirs :
           CliMain(place, theme_name, output_dir)
    \/ \E place \in Places, theme_name \in DOMAIN themeStore :
           WebRerun(place, theme_name)
    \/ WebPreview
    \/ \E place \in Places, a \in ApiAspectRatios : ApiFigure(place, a)
    \/ GetCoordinates
    \/ \E r \in GraphResponses : FetchGraph(r)
    \/ \E r \in FeatureResponses : FetchWater(r)
    \/ \E r \in FeatureResponses : FetchParks(r)
    \/ \E ts \in Timestamps : RenderPoster(ts)
    \/ RenderFigure
    \/ \E paper_size \in PaperNames, orientation \in Orientations,
          print_ready \in BOOLEAN, output_dir \in OutputDirs :
           ExportPdf(paper_size, orientation, print_ready, output_dir)
    \/ \E paper_size \in DOMAIN PAPER_SIZES, o \in WebOrientations :
           WebPdfDownload(paper_size, o)
    \/ \E dpi \in WebDpis : WebPngDownload(dpi)

Spec == Init /\ [][Next]_vars

(***************************************************************************)
(* The pure functions, called on their own: load_theme over many stored    *)
(* definitions, the two classifier functions over many graphs,             *)
(* get_aspect_ratio over every paper name and orientation.                 *)
(***************************************************************************)
\* the highway tokens of the classification branches
TableTokens ==
    {"motorway", "motorway_link", "trunk", "trunk_link", "primary",
     "primary_link", "secondary", "secondary_link", "tertiary", "tertiary_link",
     "residential", "living_street"}

OtherTokens == {"", "Motorway", "PRIMARY", "footway", "service", "motorway "}

ListTags ==
    {<<"residential", "footway">>, <<"footway", "motorway">>,
     <<"primary", "secondary", "tertiary">>, <<"residential", "motorway">>,
     <<"motorway_link">>}

EdgeDatas ==
    {[highway |-> Str(t)] : t \in TableTokens \cup OtherTokens}
    \cup {[highway |-> Lst(l)] : l \in ListTags}
    \cup {[length |-> 7]}

RECURSIVE SeqsUpTo(_, _)
SeqsUpTo(S, n) ==
    IF n = 0 THEN {<<>>}
    ELSE LET shorter == SeqsUpTo(S, n - 1)
         IN  shorter \cup {Append(q, x) : q \in shorter, x \in S}

\* stored theme definitions: NoirTheme restricted to the keys P, with the roles
\* B given the malformed value m
StoredDef(P, B, m) == [k \in P |-> IF k \in B THEN m ELSE NoirTheme[k]]

KeySets ==
    {P \in SUBSET DOMAIN NoirTheme :
        \/ Cardinality(DOMAIN NoirTheme \ P) <= MaxMissing
        \/ Cardinality(P) <= MaxMissing}

StoredDefs ==
    UNION {{StoredDef(P, B, m) :
                B \in {X \in SUBSET (P \cap Roles) : Cardinality(X) <= MaxMalformed},
                m \in MalformedValues} : P \in KeySets}

\* latitudes and longitudes in ten-thousandths of a degree: both signs, zero,
\* values rounding up, down, to zero and across a power of ten
Coordinates ==
    {0, 488566, 23522, -338700, -1512100, -49, 99960, -1799999}

\* trim widths, trim heights and bleeds given to _add_crop_marks directly
TrimWidths == {1, 148, 210}

TrimHeights == {1, 297}

Bleeds == {0, 3, 5}

\* the PDFs given to _add_crop_marks directly
PdfInputs ==
    {[fmt |-> "pdf", page |-> <<MmToInches(216), MmToInches(303)>>,
      facecolor |-> Hex6("F","F","F","F","F","F"), region |-> "full",
      content |-> c] : c \in {<<>>, <<[kind |-> "background",
                                       color |-> Hex6("F","F","F","F","F","F")]>>}}

\* the calls of _add_crop_marks: with any trim size and bleed, and as a
\* print-ready export_pdf of a paper size and orientation makes them
CropMarkCalls ==
    {[fn |-> "crop_marks", pdf_bytes |-> b, width_mm |-> w, height_mm |-> h,
      bleed_mm |-> bl, export |-> None] :
         b \in PdfInputs, w \in TrimWidths, h \in TrimHeights, bl \in Bleeds}
    \cup {LET mm == ExportPageMm(p, o, TRUE)
              a  == CropMarkArgs(mm[1], mm[2])
          IN  [fn |-> "crop_marks", pdf_bytes |-> b, width_mm |-> a[1],
               height_mm |-> a[2], bleed_mm |-> a[3],
               export |-> [paper_size |-> p, orientation |-> o]] :
              b \in PdfInputs, p \in PaperNames, o \in Orientations}

FnCalls ==
    CropMarkCalls
    \cup {[fn |-> "load_theme", theme_name |-> t] : t \in {"custom", "nofile"}}
    \cup {[fn |-> "coord_text", lat |-> a, lon |-> o] :
              a \in Coordinates, o \in Coordinates}
    \cup {[fn |-> "edge_styles", graph |-> g, theme_name |-> t] :
              g \in SeqsUpTo(EdgeDatas, MaxEdges), t \in {"feature_based", "noir"}}
    \cup {[fn |-> "get_aspect_ratio", paper_size |-> p, orientation |-> o] :
              p \in PaperNames, o \in Orientations \cup {<<"d","i","a","g">>}}

InitFn ==
    /\ InitPipeline
    /\ fnArgs \in FnCalls
    /\ fnOut = None
    /\ IF fnArgs.fn = "load_theme"
       THEN themeStore \in {[custom |-> d] : d \in StoredDefs}
       ELSE themeStore = MainStore

CallLoadTheme ==
    /\ fnArgs.fn = "load_theme"
    /\ fnOut = None
    /\ fnOut' = [ret |-> load_theme(fnArgs.theme_name)]
    /\ UNCHANGED <<themeStore, pipelineVars, fnArgs>>

\* the two calls the pipeline makes before ox.plot_graph
CallEdgeStyles ==
    /\ fnArgs.fn = "edge_styles"
    /\ fnOut = None
    /\ fnOut' = [edge_colors |-> get_edge_colors_by_type(fnArgs.graph,
                                     load_theme(fnArgs.theme_name)),
                 edge_widths |-> get_edge_widths_by_type(fnArgs.graph)]
    /\ UNCHANGED <<themeStore, pipelineVars, fnArgs>>

CallGetAspectRatio ==
    /\ fnArgs.fn = "get_aspect_ratio"
    /\ fnOut = None
    /\ fnOut' = [ret |-> get_aspect_ratio(fnArgs.paper_size, fnArgs.orientation)]
    /\ UNCHANGED <<themeStore, pipelineVars, fnArgs>>

\* the coord_text expression of each pipeline variant
CallCoordText ==
    /\ fnArgs.fn = "coord_text"
    /\ fnOut = None
    /\ fnOut' = [poster |-> coord_text_poster(fnArgs.lat, fnArgs.lon),
                 figure |-> coord_text_figure(fnArgs.lat, fnArgs.lon)]
    /\ UNCHANGED <<themeStore, pipelineVars, fnArgs>>

\* _add_crop_marks: the overlay figure it draws and closes, and its return value
CallAddCropMarks ==
    /\ fnArgs.fn = "crop_marks"
    /\ fnOut = None
    /\ fnOut' = [fig_marks |-> CropMarkFigure(fnArgs.width_mm, fnArgs.height_mm,
                                              fnArgs.bleed_mm),
                 ret |-> _add_crop_marks(fnArgs.pdf_bytes, fnArgs.width_mm,
                                         fnArgs.height_mm, fnArgs.bleed_mm)]
    /\ UNCHANGED <<themeStore, pipelineVars, fnArgs>>

NextFn ==
    \/ CallLoadTheme
    \/ CallEdgeStyles
    \/ CallGetAspectRatio
    \/ CallCoordText
    \/ CallAddCropMarks

SpecFn == InitFn /\ [][NextFn]_vars

(***************************************************************************)
(* The claims.                                                             *)
(***************************************************************************)
\* the page of a PDF is w mm by h mm: n/d inches = mm * 10 / 254 on each axis
PageIsMm(page, w, h) ==
    /\ page[1][1] * 254 = w * 10 * page[1][2]
    /\ page[2][1] * 254 = h * 10 * page[2][2]

\* the page size C1 states, written out from the claim
C1_ExpectedMm(paper_size, orientation, print_ready) ==
    LET base == CASE paper_size = "A3" -> <<297, 420>>
                  [] paper_size = "A5" -> <<148, 210>>
                  [] OTHER -> <<210, 297>>
        w == CASE orientation = sLandscape -> base[2]
               [] orientation = sSquare -> IF base[1] < base[2] THEN base[1] ELSE base[2]
               [] OTHER -> base[1]
        h == CASE orientation = sLandscape -> base[1]
               [] orientation = sSquare -> IF base[1] < base[2] THEN base[1] ELSE base[2]
               [] OTHER -> base[2]
        extra == IF print_ready THEN 6 ELSE 0
    IN  <<w + extra, h + extra>>

\* C1: every PDF an export returns has the page size of its paper name (A4 for
\* an unknown name), swapped for landscape, the smaller dimension on both axes
\* for square, plus 6 mm per axis exactly when print_ready; A4 portrait is
\* 216 x 303 print-ready and 210 x 297 otherwise.
C1_PageSize ==
    /\ (exported # None /\ exported.op = "export_pdf") =>
         LET e == C1_ExpectedMm(exported.paper_size, exported.orientation,
                                exported.print_ready)
         IN  /\ PageIsMm(exported.bytes.page, e[1], e[2])
             /\ (exported.paper_size = "A4" /\ exported.orientation = sPortrait) =>
                    IF exported.print_ready
                    THEN PageIsMm(exported.bytes.page, 216, 303)
                    ELSE PageIsMm(exported.bytes.page, 210, 297)
    /\ (exported # None /\ exported.op = "web_pdf") =>
         LET h == C1_ExpectedMm(exported.paper_size, exported.orientation, FALSE)
             p == C1_ExpectedMm(exported.paper_size, exported.orientation, TRUE)
         IN  /\ PageIsMm(exported.pdf_home.page, h[1], h[2])
             /\ PageIsMm(exported.pdf_print.page, p[1], p[2])

\* C1 witness: a print-ready square export under an unknown paper name came out
\* 216 x 216, and it was not the first export of that figure.
C1_Witness ==
    /\ exported # None
    /\ exported.op = "export_pdf"
    /\ exported.paper_size = "Letter"
    /\ exported.orientation = sSquare
    /\ exported.print_ready
    /\ nExports = 2
    /\ PageIsMm(exported.bytes.page, 216, 216)

\* C2: load_theme returns a theme holding every key of the default theme; with
\* no stored definition it is the default theme; with one, each key the stored
\* definition holds has the stored value and each other key the default's.
C2_ResolveMerges ==
    (fnArgs # None /\ fnArgs.fn = "load_theme") =>
        /\ fnOut = None => ENABLED CallLoadTheme
        /\ fnOut # None =>
             /\ DOMAIN DEFAULT_THEME \subseteq DOMAIN fnOut.ret
             /\ fnArgs.theme_name \notin DOMAIN themeStore =>
                    fnOut.ret = DEFAULT_THEME
             /\ fnArgs.theme_name \in DOMAIN themeStore =>
                    LET stored == themeStore[fnArgs.theme_name]
                    IN  \A k \in DOMAIN DEFAULT_THEME :
                            fnOut.ret[k] = IF k \in DOMAIN stored THEN stored[k]
                                           ELSE DEFAULT_THEME[k]

\* C2 witness: a stored theme that lacks exactly road_default resolved to the
\* default's road_default and the stored value of every other role.
C2_Witness ==
    /\ fnArgs # None
    /\ fnArgs.fn = "load_theme"
    /\ fnOut # None
    /\ fnArgs.theme_name \in DOMAIN themeStore
    /\ Roles \ DOMAIN themeStore[fnArgs.theme_name] = {"road_default"}
    /\ fnOut.ret["road_default"] = DEFAULT_THEME["road_default"]
    /\ \A k \in Roles \ {"road_default"} :
           /\ fnOut.ret[k] = NoirTheme[k]
           /\ fnOut.ret[k] # DEFAULT_THEME[k]

\* the classification table of C3, written out from the claim
C3_Class(token) ==
    CASE token \in {"motorway", "motorway_link"} -> "Motorway"
      [] token \in {"trunk", "trunk_link", "primary", "primary_link"} -> "Primary"
      [] token \in {"secondary", "secondary_link"} -> "Secondary"
      [] token \in {"tertiary", "tertiary_link"} -> "Tertiary"
      [] token \in {"residential", "living_street"} -> "Residential"
      [] OTHER -> "Default"

C3_Role(class) ==
    CASE class = "Motorway" -> "road_motorway"
      [] class = "Primary" -> "road_primary"
      [] class = "Secondary" -> "road_secondary"
      [] class = "Tertiary" -> "road_tertiary"
      [] class = "Residential" -> "road_residential"
      [] OTHER -> "road_default"

C3_Width(class) ==
    CASE class = "Motorway" -> 12
      [] class = "Primary" -> 10
      [] class = "Secondary" -> 8
      [] class = "Tertiary" -> 6
      [] class = "Residential" -> 4
      [] OTHER -> 3

\* the single token of an edge, "" when the key is absent
C3_Token(data) == IF "highway" \in DOMAIN data THEN data.highway.str ELSE ""

\* C3: the color list and the width list have one entry per edge, in edge
\* order, and an edge with a single-token (or absent) highway tag gets the theme
\* color and the width of the class the table gives its token.
C3_Classification ==
    (fnArgs # None /\ fnArgs.fn = "edge_styles" /\ fnOut # None) =>
        LET g  == fnArgs.graph
            th == load_theme(fnArgs.theme_name)
        IN  /\ Len(fnOut.edge_colors) = Len(g)
            /\ Len(fnOut.edge_widths) = Len(g)
            /\ \A i \in 1..Len(g) :
                   ("highway" \notin DOMAIN g[i] \/ ~IsList(g[i].highway)) =>
                       LET class == C3_Class(C3_Token(g[i]))
                       IN  /\ fnOut.edge_colors[i] = th[C3_Role(class)]
                           /\ fnOut.edge_widths[i] = C3_Width(class)

\* C3 witness: a graph of a trunk_link edge followed by a "Motorway" edge under
\* the stored noir theme was styled Primary, then Default.
C3_Witness ==
    /\ fnArgs # None
    /\ fnArgs.fn = "edge_styles"
    /\ fnOut # None
    /\ fnArgs.theme_name = "noir"
    /\ fnArgs.graph = <<[highway |-> Str("trunk_link")], [highway |-> Str("Motorway")]>>
    /\ fnOut.edge_colors = <<NoirTheme["road_primary"], NoirTheme["road_default"]>>
    /\ fnOut.edge_widths = <<10, 3>>

\* C4: a print-ready export returns the bleed-extended page with the eight
\* segments of the four corner crop marks composed into it, and a home export
\* returns the nominal page with no mark.
C4_PrintReadyHasCropMarks ==
    (exported # None /\ exported.op = "export_pdf") =>
        LET trim    == C1_ExpectedMm(exported.paper_size, exported.orientation, FALSE)
            content == exported.bytes.content
            marks   == CropMarkSegments(trim[1], trim[2], BLEED_MM)
        IN  IF exported.print_ready
            THEN /\ PageIsMm(exported.bytes.page, trim[1] + 6, trim[2] + 6)
                 /\ \A i \in DOMAIN marks : \E j \in DOMAIN content :
                        content[j] = [kind |-> "cropmark", segment |-> marks[i]]
            ELSE /\ PageIsMm(exported.bytes.page, trim[1], trim[2])
                 /\ \A j \in DOMAIN content : content[j].kind # "cropmark"

\* the number of calls of a service the pipeline function issued
PipelineCalls(svc) ==
    Cardinality({i \in DOMAIN calls : calls[i].svc = svc /\ calls[i].by = req.fn})

C5_State ==
    /\ (pc = "failed" /\ outcome.error = LocationNotFound) =>
           /\ calls[Len(calls)].svc = "geocode"
           /\ PipelineCalls("geocode") <= 1
           /\ Len(calls) = IF req.caller = "web" THEN Len(calls) ELSE 1
           /\ \A svc \in {"graph", "water", "parks"} : PipelineCalls(svc) = 0
           /\ fig = None
           /\ files = {}
    /\ (pc = "failed" /\ outcome.error = GraphFetchFailed) =>
           /\ calls[Len(calls)].svc = "graph"
           /\ PipelineCalls("graph") = 1
           /\ PipelineCalls("geocode") = 1
           /\ \A svc \in {"water", "parks"} : PipelineCalls(svc) = 0
           /\ fig = None
           /\ files = {}
    /\ pc = "failed" =>
           /\ outcome.kind = CASE req.caller = "cli" -> "exit"
                               [] req.caller = "web" -> "st_error"
                               [] OTHER -> "raised"
           /\ req.caller = "cli" => outcome.code = 1
    /\ (pc = "done" /\ req.caller = "cli") =>
           /\ outcome.kind = "exit"
           /\ outcome.code = 0
           /\ \E f \in files : <<f.dir, f.name>> =
                                    <<outcome.output_path.dir, outcome.output_path.name>>
    /\ (outcome # None /\ outcome.kind = "exit") =>
           outcome.code = IF pc = "done" THEN 0 ELSE 1

C5_Step ==
    /\ pc # "failed"
    /\ pc \in {"preview", "geocode"} =>
           \/ pc' \in {"geocode", "graph"} /\ outcome' = None
           \/ pc' = "failed" /\ outcome'.error = LocationNotFound
    /\ pc = "graph" =>
           \/ pc' = "water" /\ graph' # None /\ outcome' = None
           \/ pc' = "failed" /\ outcome'.error = GraphFetchFailed

\* C5: a geocoder miss or a failed street-graph fetch ends the request at once:
\* the failed call was issued once by the pipeline and is the last call, no
\* graph, water or park call follows it, no figure exists and no file is
\* written, nothing runs after the failure, and the caller gets the failure
\* (exit status 1 from the CLI, which gives 0 exactly for a completed poster).
C5_FatalFailures == [](C5_State) /\ [][C5_Step]_vars

\* C5 witness: through the CLI the graph fetch failed after one geocode and one
\* graph call; exit status 1, no figure, no file.
C5_Witness ==
    /\ pc = "failed"
    /\ req.caller = "cli"
    /\ outcome = [kind |-> "exit", code |-> 1, error |-> GraphFetchFailed]
    /\ Len(calls) = 2
    /\ calls[1].svc = "geocode"
    /\ calls[2].svc = "graph"
    /\ fig = None
    /\ files = {}

HasOp(f, kind) == \E j \in DOMAIN f.ops : f.ops[j].kind = kind

OpKinds(f) == [j \in DOMAIN f.ops |-> f.ops[j].kind]

C6_State ==
    /\ pc = "failed" =>
           outcome.error \in {LocationNotFound, GraphFetchFailed, InvalidHexColor}
    /\ (calls # <<>> /\ calls[Len(calls)].svc = "water") => pc = "parks"
    /\ (calls # <<>> /\ calls[Len(calls)].svc = "parks") =>
           \/ pc \in {"render", "done"}
           \/ /\ pc = "failed"
              /\ outcome.error = InvalidHexColor
              /\ ~RgbParses(load_theme(req.theme_name)["gradient_color"])

C6_Step ==
    /\ pc = "water" =>
           /\ pc' = "parks"
           /\ outcome' = None
    /\ pc = "parks" =>
           /\ pc' = "render"
           /\ outcome' = None
           /\ calls' = Append(calls, calls'[Len(calls')])
           /\ calls'[Len(calls')].svc = "parks"
           /\ water' = water
    /\ pc = "render" =>
           /\ HasOp(fig', "water") <=> (water # None /\ water.features # <<>>)
           /\ HasOp(fig', "parks") <=> (parks # None /\ parks.features # <<>>)
           /\ RgbParses(theme["gradient_color"]) => pc' = "done"
           /\ (pc' = "done" /\ ~HasOp(fig', "water") /\ ~HasOp(fig', "parks")) =>
                  OpKinds(fig') = <<"background", "roads", "imshow", "imshow",
                                    "text", "line", "text", "text", "text">>

\* C6: a provider failure on the water or the park fetch never fails the
\* request: the layer is left out, the park fetch still follows the water
\* fetch, and rendering follows the park fetch and completes the poster (the
\* only failure past the fetches is a theme color that does not parse).  A water
\* (park) operation is drawn exactly when that layer was fetched and is
\* non-empty; with neither, the canvas holds the background, the roads, the two
\* fades and the five caption items.
C6_OptionalLayers == [](C6_State) /\ [][C6_Step]_vars

\* C6 witness: the water fetch failed, the park fetch then returned features,
\* and the request is about to render.
C6_Witness ==
    /\ pc = "render"
    /\ water = None
    /\ parks = [features |-> <<"polygon">>]
    /\ Len(calls) >= 4
    /\ calls[Len(calls) - 1].svc = "water"
    /\ calls[Len(calls)].svc = "parks"
    /\ outcome = None

\* a "#RRGGBB" color
IsValidColor(v) ==
    /\ Len(v) = 7
    /\ v[1] = "#"
    /\ \A i \in 2..7 : IsHexDigit(v[i])

\* C7: load_theme tolerates a malformed stored definition role by role: a
\* well-formed stored role is used, a missing or malformed one takes the
\* default's value, so every role of the result is a valid color.
C7_RoleByRole ==
    (fnArgs # None /\ fnArgs.fn = "load_theme" /\ fnOut # None) =>
        \A role \in Roles :
            /\ role \in DOMAIN fnOut.ret
            /\ IsValidColor(fnOut.ret[role])
            /\ fnOut.ret[role] =
                   IF /\ fnArgs.theme_name \in DOMAIN themeStore
                      /\ role \in DOMAIN themeStore[fnArgs.theme_name]
                      /\ IsValidColor(themeStore[fnArgs.theme_name][role])
                   THEN themeStore[fnArgs.theme_name][role]
                   ELSE DEFAULT_THEME[role]

\* C8: get_aspect_ratio is width / height of the page the claim's table gives
\* (no bleed), which is the ratio of the page a home export uses; A4 gives
\* 297/210 landscape, 210/297 portrait and 1 square.
C8_AspectRatio ==
    (fnArgs # None /\ fnArgs.fn = "get_aspect_ratio" /\ fnOut # None) =>
        LET e == C1_ExpectedMm(fnArgs.paper_size, fnArgs.orientation, FALSE)
            x == ExportPageMm(fnArgs.paper_size, fnArgs.orientation, FALSE)
            r == fnOut.ret
        IN  /\ r[2] > 0
            /\ r[1] * e[2] = r[2] * e[1]
            /\ r[1] * x[2] = r[2] * x[1]
            /\ fnArgs.paper_size = "A4" =>
                   /\ fnArgs.orientation = sLandscape => r[1] * 210 = r[2] * 297
                   /\ fnArgs.orientation = sPortrait => r[1] * 297 = r[2] * 210
                   /\ fnArgs.orientation = sSquare => r[1] = r[2]

\* C8 witness: get_aspect_ratio("A4", "landscape") returned 297/210 = 99/70.
C8_Witness ==
    /\ fnArgs # None
    /\ fnArgs.fn = "get_aspect_ratio"
    /\ fnArgs.paper_size = "A4"
    /\ fnArgs.orientation = sLandscape
    /\ fnOut = [ret |-> <<99, 70>>]

\* C9: an export that repeats the parameters of the export just before it on
\* the same figure returns the same output: the same PDF for a direct
\* export_pdf call, the same home and print PDFs for the web app's download.
C9_Idempotent ==
    [][(exported' # None /\ nExports' = nExports + 1
        /\ exported'.op \in {"export_pdf", "web_pdf"} /\ exported'.repeated) =>
           IF exported'.op = "export_pdf"
           THEN exported'.bytes = exported.bytes
           ELSE /\ exported'.pdf_home = exported.pdf_home
                /\ exported'.pdf_print = exported.pdf_print]_vars

\* C9 witness: a print-ready export_pdf call repeated the call before it.
C9_Witness ==
    /\ exported # None
    /\ exported.op = "export_pdf"
    /\ exported.repeated
    /\ exported.print_ready
    /\ nExports = 2

\* the file name C10 states, written out for the cities of the model
C10_Name(city, theme_name, paper_size, orientation, print_ready) ==
    (CASE city = <<"P","a","r","i","s">> -> <<"p","a","r","i","s">>
       [] city = <<"N","e","w"," ","Y","o","r","k">> ->
              <<"n","e","w","_","y","o","r","k">>)
    \o <<"_", theme_name, "_", paper_size, "_">>
    \o (CASE orientation = sPortrait -> <<"p","o","r","t">>
          [] orientation = sLandscape -> <<"l","a","n","d">>
          [] orientation = sSquare -> <<"s","q","u","a">>)
    \o (IF print_ready THEN <<"_printready", ".pdf">> ELSE <<".pdf">>)

\* C10: an export_pdf call given an output directory writes, at the name the
\* parameters determine, a file holding the bytes it returns, and changes no
\* other file; given none it leaves the files as they were.  The web app's
\* downloads carry the same names and write no file.
C10_FileWritten ==
    [][(exported' # None /\ nExports' = nExports + 1) =>
           CASE exported'.op = "export_pdf" ->
                  IF exported'.output_dir = None
                  THEN files' = files
                  ELSE LET name == C10_Name(req.city, req.theme_name,
                                            exported'.paper_size,
                                            exported'.orientation,
                                            exported'.print_ready)
                           path(f) == <<f.dir, f.name>>
                       IN  files' = {f \in files :
                                        path(f) # <<exported'.output_dir, name>>}
                                    \cup {[dir |-> exported'.output_dir,
                                           name |-> name,
                                           data |-> exported'.bytes]}
             [] exported'.op = "web_pdf" ->
                  /\ files' = files
                  /\ exported'.filename_home =
                         C10_Name(req.city, req.theme_name, exported'.paper_size,
                                  exported'.orientation, FALSE)
                  /\ exported'.filename_print =
                         C10_Name(req.city, req.theme_name, exported'.paper_size,
                                  exported'.orientation, TRUE)
             [] OTHER -> files' = files]_vars

\* C10 witness: a print-ready A4 landscape export of New York into "out" left
\* new_york_feature_based_A4_land_printready.pdf holding the returned bytes,
\* after an export without a directory that wrote nothing.
C10_Witness ==
    /\ exported # None
    /\ exported.op = "export_pdf"
    /\ nExports = 2
    /\ files = {[dir |-> [path |-> <<"out">>],
                 name |-> <<"n","e","w","_","y","o","r","k","_","feature_based",
                            "_","A4","_","l","a","n","d","_printready",".pdf">>,
                 data |-> exported.bytes]}

\* the number a text of the shape d..d.dd writes, in hundredths; -1 for a text
\* of another shape
C11_Hundredths(t) ==
    LET digits == <<"0","1","2","3","4","5","6","7","8","9">>
        val(c) == (CHOOSE k \in 1..10 : digits[k] = c) - 1
        isDigit(c) == \E k \in 1..10 : digits[k] = c
        n == Len(t)
        pow10(k) == IF k = 0 THEN 1 ELSE IF k = 1 THEN 10 ELSE IF k = 2 THEN 100
                    ELSE IF k = 3 THEN 1000 ELSE 10000
    IN  IF /\ n >= 4
           /\ n <= 6
           /\ t[n - 2] = "."
           /\ \A i \in (1..n) \ {n - 2} : isDigit(t[i])
           /\ (n > 4 => t[1] # "0")
        THEN LET ip == n - 3
                 int == IF ip = 1 THEN val(t[1])
                        ELSE IF ip = 2 THEN 10 * val(t[1]) + val(t[2])
                        ELSE 100 * val(t[1]) + 10 * val(t[2]) + val(t[3])
             IN  100 * int + 10 * val(t[n - 1]) + val(t[n])
        ELSE -1

\* t is |x| to the nearest hundredth, the degree sign, then the letter of x's sign
C11_Half(t, x, nonneg, neg) ==
    /\ Len(t) >= 6
    /\ t[Len(t)] = (IF x >= 0 THEN nonneg ELSE neg)
    /\ t[Len(t) - 1] = "°"
    /\ LET v == C11_Hundredths(SubSeq(t, 1, Len(t) - 2))
           a == IF x < 0 THEN -x ELSE x
       IN  /\ v >= 0
           /\ 100 * v - a <= 50
           /\ a - 100 * v <= 50

C11_Caption(s, lat, lon) ==
    \E k \in 2..(Len(s) - 3) :
        /\ SubSeq(s, k, k + 2) = <<" ", "/", " ">>
        /\ C11_Half(SubSeq(s, 1, k - 1), lat, "N", "S")
        /\ C11_Half(SubSeq(s, k + 3, Len(s)), lon, "E", "W")

\* C11: in both pipeline variants the coordinate caption is |lat| with two
\* decimals, the degree sign and N (lat >= 0) or S (lat < 0), then " / ", then
\* |lon| with two decimals, the degree sign and E (lon >= 0) or W (lon < 0);
\* (48.8566, 2.3522) gives 48.86°N / 2.35°E, (-33.87, -151.21) gives
\* 33.87°S / 151.21°W, and (0, 0) gives 0.00°N / 0.00°E.
C11_CoordCaption ==
    (fnArgs # None /\ fnArgs.fn = "coord_text" /\ fnOut # None) =>
        /\ C11_Caption(fnOut.poster, fnArgs.lat, fnArgs.lon)
        /\ C11_Caption(fnOut.figure, fnArgs.lat, fnArgs.lon)
        /\ (fnArgs.lat = 488566 /\ fnArgs.lon = 23522) =>
               fnOut.poster = <<"4","8",".","8","6","°","N"," ","/"," ",
                                "2",".","3","5","°","E">>
        /\ (fnArgs.lat = -338700 /\ fnArgs.lon = -1512100) =>
               fnOut.figure = <<"3","3",".","8","7","°","S"," ","/"," ",
                                "1","5","1",".","2","1","°","W">>
        /\ (fnArgs.lat = 0 /\ fnArgs.lon = 0) =>
               fnOut.poster = <<"0",".","0","0","°","N"," ","/"," ",
                                "0",".","0","0","°","E">>

\* C11 witness: the caption of (-33.87, -151.21) was computed by both variants.
C11_Witness ==
    /\ fnArgs # None
    /\ fnArgs.fn = "coord_text"
    /\ fnArgs.lat = -338700
    /\ fnArgs.lon = -1512100
    /\ fnOut # None
    /\ fnOut.poster = <<"3","3",".","8","7","°","S"," ","/"," ",
                        "1","5","1",".","2","1","°","W">>
    /\ fnOut.figure = fnOut.poster

\* C12: an edge whose highway tag is a list is styled as the single-token edge
\* carrying the list's first token (the class the table gives that token), and
\* two lists with the same first token are styled alike whatever follows it.
C12_FirstTokenOnly ==
    (fnArgs # None /\ fnArgs.fn = "edge_styles" /\ fnOut # None) =>
        LET g    == fnArgs.graph
            th   == load_theme(fnArgs.theme_name)
            Lists == {i \in 1..Len(g) : "highway" \in DOMAIN g[i] /\ IsList(g[i].highway)}
        IN  /\ \A i \in Lists :
                   LET first  == g[i].highway.list[1]
                       single == <<[highway |-> Str(first)]>>
                   IN  /\ <<fnOut.edge_colors[i]>> = get_edge_colors_by_type(single, th)
                       /\ <<fnOut.edge_widths[i]>> = get_edge_widths_by_type(single)
                       /\ fnOut.edge_colors[i] = th[C3_Role(C3_Class(first))]
                       /\ fnOut.edge_widths[i] = C3_Width(C3_Class(first))
            /\ \A i, j \in Lists :
                   g[i].highway.list[1] = g[j].highway.list[1] =>
                       /\ fnOut.edge_colors[i] = fnOut.edge_colors[j]
                       /\ fnOut.edge_widths[i] = fnOut.edge_widths[j]

\* C12 witness: the lists [residential, motorway] and [residential, footway]
\* were both styled Residential under the stored noir theme.
C12_Witness ==
    /\ fnArgs # None
    /\ fnArgs.fn = "edge_styles"
    /\ fnArgs.theme_name = "noir"
    /\ fnArgs.graph = <<[highway |-> Lst(<<"residential", "motorway">>)],
                        [highway |-> Lst(<<"residential", "footway">>)]>>
    /\ fnOut # None
    /\ fnOut.edge_colors = <<NoirTheme["road_residential"], NoirTheme["road_residential"]>>
    /\ fnOut.edge_widths = <<4, 4>>

\* the z-order C13 gives each layer
C13_Rank(kind) ==
    CASE kind = "background" -> 0
      [] kind = "water" -> 1
      [] kind = "parks" -> 2
      [] kind = "roads" -> 3
      [] kind = "imshow" -> 10
      [] OTHER -> 11

\* C13: on every completed canvas the operations come in the order background,
\* water, parks, roads, fades, caption items, and each drawn layer carries the
\* z-order Water 1, Parks 2, Roads 3, GradientFades 10, Text/Decorations 11.
C13_ZOrder ==
    (pc = "done" /\ fig # None) =>
        LET ops == fig.ops
        IN  /\ \A i, j \in DOMAIN ops :
                   i < j => C13_Rank(ops[i].kind) <= C13_Rank(ops[j].kind)
            /\ \A i \in DOMAIN ops :
                   ops[i].kind # "background" =>
                       /\ "zorder" \in DOMAIN ops[i]
                       /\ ops[i].zorder = C13_Rank(ops[i].kind)

\* the fade op covers the full width and y in [lo, hi] (thousandths), in 100
\* rows that tile it, all rows in the tint rgb; the row at `edge` has alpha 1,
\* the row at the other end alpha 0, and each row further from the edge has
\* 1/99 less alpha than the row before it
C14_Fade(op, lo, hi, edge, rgb) ==
    LET inner == IF edge = lo THEN hi ELSE lo
        Rows  == 0..(op.rows - 1)
        \* how many rows lie between row r and the edge
        away(r) == LET m == ImshowRowEdge(op, r) + ImshowRowEdge(op, r + 1)
                              - 2 * edge * op.rows
                       a == IF m < 0 THEN -m ELSE m
                   IN  (a \div (hi - lo) - 1) \div 2
    IN  /\ op.extent[1] = 0
        /\ op.extent[2] = 1000
        /\ {op.extent[3], op.extent[4]} = {lo, hi}
        /\ op.rows = 100
        /\ {ImshowRowEdge(op, 0), ImshowRowEdge(op, op.rows)} = {lo * 100, hi * 100}
        /\ op.cmap[1].rgb = rgb
        /\ op.cmap[2].rgb = rgb
        /\ \A r \in Rows :
               /\ away(r) \in 0..99
               /\ ImshowRowAlpha(op, r)[1] * 99 = (99 - away(r)) * ImshowRowAlpha(op, r)[2]
        /\ \E r \in Rows :
               /\ edge * 100 \in {ImshowRowEdge(op, r), ImshowRowEdge(op, r + 1)}
               /\ ImshowRowAlpha(op, r) = <<1, 1>>
        /\ \E r \in Rows :
               /\ inner * 100 \in {ImshowRowEdge(op, r), ImshowRowEdge(op, r + 1)}
               /\ ImshowRowAlpha(op, r) = <<0, 1>>

\* the channels of the gradient tint of the themes of the model
C14_Tint(theme_name) ==
    IF theme_name = "noir" THEN <<0, 0, 0>> ELSE <<255, 255, 255>>

\* C14: the canvas a pipeline run completes has exactly two fades, both in the
\* theme's gradient tint: the first over y in [0.92, 1] opaque at y = 1, the
\* second over y in [0, 0.20] opaque at y = 0, each full width, in 100 rows,
\* transparent at its inner boundary and linear in between.
C14_GradientFades ==
    (pc = "done" /\ fig # None /\ exported = None) =>
        LET F == {i \in DOMAIN fig.ops : fig.ops[i].kind = "imshow"}
        IN  /\ Cardinality(F) = 2
            /\ \E i \in F :
                   /\ i + 1 \in F
                   /\ C14_Fade(fig.ops[i], 920, 1000, 1000, C14_Tint(req.theme_name))
                   /\ C14_Fade(fig.ops[i + 1], 0, 200, 0, C14_Tint(req.theme_name))

\* C14 witness: a completed canvas of the stored noir theme, whose top fade
\* paints its last row, at y = 1, opaque and its first row, at y = 0.92,
\* transparent.
C14_Witness ==
    /\ pc = "done"
    /\ fig # None
    /\ exported = None
    /\ req.theme_name = "noir"
    /\ \E i \in DOMAIN fig.ops :
           /\ fig.ops[i].kind = "imshow"
           /\ fig.ops[i].extent = <<0, 1000, 1000, 920>>
           /\ ImshowRowEdge(fig.ops[i], 100) = 100000
           /\ ImshowRowAlpha(fig.ops[i], 99) = <<1, 1>>
           /\ ImshowRowAlpha(fig.ops[i], 0) = <<0, 1>>
           /\ ImshowRowAlpha(fig.ops[i], 33) = <<1, 3>>

\* C15: _add_crop_marks computes exactly eight segments: at each corner of the
\* trim box, which starts 10 mm + bleed from the overlay's origin, one
\* horizontal and one vertical segment, 5 mm long, on the line through the
\* corner, starting 3 mm outside the trim edge and pointing away from the page,
\* none meeting the trim box; a print-ready export passes the page size without
\* bleed as the trim size.
C15_CropMarkGeometry ==
    (fnArgs # None /\ fnArgs.fn = "crop_marks" /\ fnOut # None) =>
        LET segs == fnOut.fig_marks.ops
            x0 == 10 + fnArgs.bleed_mm
            x1 == x0 + fnArgs.width_mm
            y0 == 10 + fnArgs.bleed_mm
            y1 == y0 + fnArgs.height_mm
            Count(seg) == Cardinality({i \in DOMAIN segs : segs[i] = seg})
            Horizontal(i) == segs[i][2][1] = segs[i][2][2]
            Vertical(i) == segs[i][1][1] = segs[i][1][2]
        IN  /\ Len(segs) = 8
            /\ Count(<<<<x0 - 8, x0 - 3>>, <<y0, y0>>>>) = 1
            /\ Count(<<<<x0, x0>>, <<y0 - 8, y0 - 3>>>>) = 1
            /\ Count(<<<<x1 + 3, x1 + 8>>, <<y0, y0>>>>) = 1
            /\ Count(<<<<x1, x1>>, <<y0 - 8, y0 - 3>>>>) = 1
            /\ Count(<<<<x0 - 8, x0 - 3>>, <<y1, y1>>>>) = 1
            /\ Count(<<<<x0, x0>>, <<y1 + 3, y1 + 8>>>>) = 1
            /\ Count(<<<<x1 + 3, x1 + 8>>, <<y1, y1>>>>) = 1
            /\ Count(<<<<x1, x1>>, <<y1 + 3, y1 + 8>>>>) = 1
            /\ \A i \in DOMAIN segs :
                   /\ Horizontal(i) # Vertical(i)
                   /\ Horizontal(i) =>
                          /\ segs[i][1][2] - segs[i][1][1] = 5
                          /\ segs[i][2][1] \in {y0, y1}
                          /\ segs[i][1][2] = x0 - 3 \/ segs[i][1][1] = x1 + 3
                   /\ Vertical(i) =>
                          /\ segs[i][2][2] - segs[i][2][1] = 5
                          /\ segs[i][1][1] \in {x0, x1}
                          /\ segs[i][2][2] = y0 - 3 \/ segs[i][2][1] = y1 + 3
                   /\ \/ segs[i][1][2] < x0
                      \/ segs[i][1][1] > x1
                      \/ segs[i][2][2] < y0
                      \/ segs[i][2][1] > y1
            /\ fnArgs.export # None =>
                   LET trim == C1_ExpectedMm(fnArgs.export.paper_size,
                                             fnArgs.export.orientation, FALSE)
                   IN  /\ fnArgs.width_mm = trim[1]
                       /\ fnArgs.height_mm = trim[2]
                       /\ fnArgs.bleed_mm = 3

\* C15 witness: the marks of a print-ready A4 portrait export (210 x 297 trim,
\* 3 mm bleed) were computed: the first is the horizontal mark left of the
\* bottom-left corner (13, 13), the last the vertical mark above (223, 310).
C15_Witness ==
    /\ fnArgs # None
    /\ fnArgs.fn = "crop_marks"
    /\ fnArgs.export = [paper_size |-> "A4", orientation |-> sPortrait]
    /\ fnArgs.width_mm = 210
    /\ fnArgs.height_mm = 297
    /\ fnOut # None
    /\ fnOut.fig_marks.ops[1] = <<<<5, 10>>, <<13, 13>>>>
    /\ fnOut.fig_marks.ops[8] = <<<<223, 223>>, <<313, 318>>>>

\* the PDF is the canvas f serialized as it stands: f's size as the page, f's
\* background, f's operations and nothing else
C16_SerializedFrom(pdf, f) ==
    /\ pdf.fmt = "pdf"
    /\ pdf.page = f.size
    /\ pdf.facecolor = f.facecolor
    /\ pdf.content = f.ops
    /\ \A j \in DOMAIN pdf.content : pdf.content[j].kind # "cropmark"

C17_CanvasIs(f, mm) ==
    /\ PageIsMm(f.size, mm[1], mm[2])
    /\ f.region = "full"

C17_State ==
    (pc = "done" /\ exported # None) =>
        /\ exported.op = "export_pdf" =>
               C17_CanvasIs(fig, C1_ExpectedMm(exported.paper_size,
                                               exported.orientation,
                                               exported.print_ready))
        /\ exported.op = "web_pdf" =>
               C17_CanvasIs(fig, C1_ExpectedMm(exported.paper_size,
                                               exported.orientation, TRUE))
        /\ exported.op = "web_png" => exported.data.size = fig.size

C17_Step ==
    (nExports' = nExports + 1) =>
        /\ fig'.ops = fig.ops
        /\ fig'.open = fig.open
        /\ exported'.op = "export_pdf" =>
               LET mm == C1_ExpectedMm(exported'.paper_size, exported'.orientation,
                                       exported'.print_ready)
               IN  /\ C17_CanvasIs(fig', mm)
                   /\ PageIsMm(exported'.bytes.page, mm[1], mm[2])
        /\ exported'.op = "web_pdf" =>
               LET h == C1_ExpectedMm(exported'.paper_size, exported'.orientation, FALSE)
                   p == C1_ExpectedMm(exported'.paper_size, exported'.orientation, TRUE)
               IN  /\ C17_CanvasIs(fig', p)
                   /\ PageIsMm(exported'.pdf_home.page, h[1], h[2])
                   /\ PageIsMm(exported'.pdf_print.page, p[1], p[2])
        /\ exported'.op = "web_png" =>
               /\ fig' = fig
               /\ exported'.data.size = fig.size
               /\ exported'.data.content = fig.ops
               /\ IF exported # None /\ exported.op = "web_pdf"
                  THEN LET p == C1_ExpectedMm(exported.paper_size,
                                              exported.orientation, TRUE)
                       IN  /\ PageIsMm(exported'.data.size, p[1], p[2])
                           /\ exported'.data.size # <<<<12, 1>>, <<16, 1>>>>
                  ELSE nExports = 0 => exported'.data.size = <<<<12, 1>>, <<16, 1>>>>

\* C17: every export_pdf call leaves the caller's canvas at the page size of
\* that call (mm / 25.4 inches, content region the whole page), whatever the
\* exports before it; the PDF's page is that size; the canvas is not restored,
\* so a PNG the web app serializes afterwards from the stored figure has the
\* page size of the last PDF export, not the 12 x 16 inches of creation.
C17_ResizedInPlace == [](C17_State) /\ [][C17_Step]_vars

\* C17 witness: the web app's PNG download after a PDF download of A4 portrait
\* was serialized from a 216 x 303 mm canvas.
C17_Witness ==
    /\ pc = "done"
    /\ exported # None
    /\ exported.op = "web_png"
    /\ nExports = 2
    /\ PageIsMm(exported.data.size, 216, 303)
    /\ PageIsMm(fig.size, 216, 303)
    /\ fig.region = "full"

\* an external call without the name of the function that issued it
C18_Call(c) == [k \in DOMAIN c \ {"by"} |-> c[k]]

\* the external call a pipeline at step pc issues, whichever variant runs
C18_CallAt(step) ==
    IF step = "geocode"
    THEN [svc |-> "geocode", query |-> req.city \o <<",", " ">> \o req.country]
    ELSE [svc |-> step, point |-> loc, dist |-> req.distance]

C18_Step ==
    /\ pc \in {"geocode", "graph", "water", "parks"} =>
           /\ Len(calls') = Len(calls) + 1
           /\ SubSeq(calls', 1, Len(calls)) = calls
           /\ C18_Call(calls'[Len(calls')]) = C18_CallAt(pc)
           /\ calls'[Len(calls')].by = req.fn
           /\ fig' = None
           /\ files' = files
           /\ pc' = "failed" =>
                  outcome'.error = (IF pc = "geocode" THEN LocationNotFound
                                    ELSE GraphFetchFailed)
           /\ pc' \in {"failed",
                       CASE pc = "geocode" -> "graph"
                         [] pc = "graph" -> "water"
                         [] pc = "water" -> "parks"
                         [] pc = "parks" -> "render"}
    /\ pc = "render" =>
           LET geometry == PosterGeometryOps(theme, graph.edges, water, parks)
               overlay  == PosterOverlayOps(theme, req.city, req.country,
                                            loc.lat, loc.lon)
               poster   == req.fn = "create_poster"
               ratio    == IF poster THEN None ELSE req.aspect_ratio
           IN  /\ geometry = FigureGeometryOps(theme, graph.edges, water, parks)
               /\ calls' = calls
               /\ fig'.facecolor = theme["bg"]
               /\ ratio = None => fig'.size = <<<<12, 1>>, <<16, 1>>>>
               /\ ratio # None =>
                      /\ fig'.size[2] = <<16, 1>>
                      /\ fig'.size[1][1] * ratio.ratio[2]
                             = 16 * ratio.ratio[1] * fig'.size[1][2]
               /\ IF RgbParses(theme["gradient_color"])
                  THEN /\ pc' = "done"
                       /\ overlay = FigureOverlayOps(theme, req.city, req.country,
                                                     loc.lat, loc.lon)
                       /\ fig'.ops = geometry \o overlay
                       /\ fig'.open = ~poster
                       /\ IF poster
                          THEN /\ outcome'.kind = "exit"
                               /\ \E f \in files' :
                                      /\ <<f.dir, f.name>> =
                                             <<outcome'.output_path.dir,
                                               outcome'.output_path.name>>
                                      /\ f.data.fmt = "png"
                                      /\ f.data.content = fig'.ops
                                      /\ f.data.size = fig'.size
                                      /\ files' \ {f} = files \ {f}
                          ELSE /\ files' = files
                               /\ req.caller = "api" =>
                                      outcome' = [kind |-> "figure", lat |-> loc.lat,
                                                  lon |-> loc.lon]
                  ELSE /\ pc' = "failed"
                       /\ outcome'.error = InvalidHexColor
                       /\ fig'.ops = geometry
                       /\ files' = files

====
